---- MODULE Spec2Model ----
(***************************************************************************)
(* The bidirectional compatibility scoring and ranking engine of           *)
(* supabase/functions/_shared/matching.ts.                                  *)
(*                                                                         *)
(* Numbers.  A JavaScript number is modelled as a record [nan, n]: either  *)
(* NaN, or an exact rational kept as an integer count of a fixed unit.     *)
(* Directional scores and scorer contributions are counted in units of     *)
(* 1/Scale (Scale is a common multiple of every range width the numeric    *)
(* domain can produce, so every proximity bonus is an exact integer);      *)
(* values rounded with Math.round(x * 10) / 10 are counted in tenths.      *)
(* Arithmetic is exact: binary rounding error of the doubles is not        *)
(* modelled, NaN propagation and NaN comparisons are.                      *)
(***************************************************************************)
EXTENDS Integers, Sequences, FiniteSets, Bags, TLC

VARIABLES seeker, candidates, limit, op, score, mutual, result, reasons,
          explanation, fruitsTable, matchesTable, conversationsTable, requests

\* the inputs and outputs of the calls of the engine
engineVars ==
    <<seeker, candidates, limit, op, score, mutual, result, reasons,
      explanation>>

\* the database tables and the requests the edge functions are serving
serverVars == <<fruitsTable, matchesTable, conversationsTable, requests>>

vars ==
    <<seeker, candidates, limit, op, score, mutual, result, reasons,
      explanation, fruitsTable, matchesTable, conversationsTable, requests>>

(***************************************************************************)
(* Bounds of the model.                                                    *)
(***************************************************************************)
\* preference bounds (min, max) range over 0..MaxBound, the width of a
\* two-sided range with them
MaxBound == 3
\* known numeric attribute values range over 0..MaxValue, past the decay
\* window above the smallest bound
MaxValue == 6
\* candidate lists of every length up to MaxCandidates are enumerated
MaxCandidates == 3
\* explicit limits range over 0..MaxLimit
MaxLimit == 4

(***************************************************************************)
(* Constants of the program.                                               *)
(***************************************************************************)
BaseScore == 50
NumericBonus == 15
NumericPenalty == 20
DecayWindow == 5
BooleanBonus == 15
BooleanPenalty == 25
EnumBonus == 12
EnumPenalty == 15
MinScore == 0
MaxScore == 100
DefaultLimit == 5

(***************************************************************************)
(* Exact arithmetic with NaN.                                              *)
(***************************************************************************)
RECURSIVE Gcd(_, _)
Gcd(a, b) == IF b = 0 THEN a ELSE Gcd(b, a % b)

Lcm(a, b) == (a * b) \div Gcd(a, b)

RECURSIVE LcmUpTo(_)
LcmUpTo(k) == IF k <= 1 THEN 1 ELSE Lcm(k, LcmUpTo(k - 1))

\* one score point is Scale units; every width 1..MaxBound divides Scale
Scale == LcmUpTo(MaxBound)

NaN == [nan |-> TRUE, n |-> 0]

Num(x) == [nan |-> FALSE, n |-> x]

\* a whole number of score points, in units of 1/Scale
Points(p) == Num(p * Scale)

Abs(x) == IF x < 0 THEN -x ELSE x

\* a + b
FAdd(a, b) == IF a.nan \/ b.nan THEN NaN ELSE Num(a.n + b.n)

\* Math.max(a, b): NaN if either argument is NaN
MathMax(a, b) ==
    IF a.nan \/ b.nan THEN NaN ELSE IF a.n >= b.n THEN a ELSE b

\* Math.min(a, b): NaN if either argument is NaN
MathMin(a, b) ==
    IF a.nan \/ b.nan THEN NaN ELSE IF a.n <= b.n THEN a ELSE b

\* a >= b, a > b, a < b of JavaScript: false when either side is NaN
FGeq(a, b) == ~a.nan /\ ~b.nan /\ a.n >= b.n

FGt(a, b) == ~a.nan /\ ~b.nan /\ a.n > b.n

FLt(a, b) == ~a.nan /\ ~b.nan /\ a.n < b.n

\* floor of the square root of x >= 0, by bisection on lo..hi
RECURSIVE IsqrtIn(_, _, _)
IsqrtIn(x, lo, hi) ==
    IF lo >= hi THEN lo
    ELSE LET mid == (lo + hi + 1) \div 2
         IN  IF mid * mid <= x THEN IsqrtIn(x, mid, hi)
             ELSE IsqrtIn(x, lo, mid - 1)

Isqrt(x) == IsqrtIn(x, 0, 20 * MaxScore * Scale)

\* Math.round(x * 10) / 10 of a value x >= 0 given in units of 1/Scale,
\* in tenths: floor(10 x + 1/2)
RoundTenths(a) ==
    IF a.nan THEN NaN ELSE Num((20 * a.n + Scale) \div (2 * Scale))

\* Math.round(Math.sqrt(a * b) * 10) / 10 for a, b >= 0 in units of
\* 1/Scale, in tenths: floor(10 sqrt(ab) + 1/2)
\*   = floor((floor(sqrt(400 a.n b.n)) + Scale) / (2 Scale))
RoundedGeometricMean(a, b) ==
    IF a.nan \/ b.nan THEN NaN
    ELSE Num((Isqrt(400 * a.n * b.n) + Scale) \div (2 * Scale))

(***************************************************************************)
(* Data model: FruitAttributes, FruitPreferences, Fruit.                   *)
(* An optional or nullable field is a record [k, v]: k says whether the    *)
(* field is "undefined", "null" or holds a "value" v.                      *)
(***************************************************************************)
ShineFactors == {"dull", "neutral", "shiny", "extraShiny"}

Undef(d) == [k |-> "undefined", v |-> d]

Null(d) == [k |-> "null", v |-> d]

Val(x) == [k |-> "value", v |-> x]

\* x === null || x === undefined
IsNullish(x) == x.k = "null" \/ x.k = "undefined"

\* preferences.size / preferences.weight: undefined, or { min?, max? }
NoRange == [k |-> "undefined", min |-> Undef(0), max |-> Undef(0)]

Range(lo, hi) == [k |-> "value", min |-> lo, max |-> hi]

\* preferences.shineFactor: undefined, a string, or an array of strings
\* (the array is kept as the set of its elements: only includes() reads it)
NoShine == [k |-> "undefined", s |-> "", a |-> {}]

ShineString(x) == [k |-> "string", s |-> x, a |-> {}]

ShineArray(xs) == [k |-> "array", s |-> "", a |-> xs]

NoPreferences ==
    [size |-> NoRange, weight |-> NoRange,
     hasStem |-> Undef(FALSE), hasLeaf |-> Undef(FALSE),
     hasWorm |-> Undef(FALSE), shineFactor |-> NoShine,
     hasChemicals |-> Undef(FALSE)]

UnknownAttributes ==
    [size |-> Null(0), weight |-> Null(0),
     hasStem |-> Null(FALSE), hasLeaf |-> Null(FALSE),
     hasWorm |-> Null(FALSE), shineFactor |-> Null(""),
     hasChemicals |-> Null(FALSE)]

(***************************************************************************)
(* The three attribute scorers.  Results are in units of 1/Scale.          *)
(***************************************************************************)
\* mutant: the no-bounds check is missing, so an empty range reaches the
\* max-only branch and computes with undefined: NaN
scoreNumericAttributeNoEmptyCheck(preference, actualValue) ==
    IF preference.k = "undefined" THEN Points(0)
    ELSE IF IsNullish(actualValue) THEN Points(0)
    ELSE IF preference.min.k # "undefined" /\ actualValue.v < preference.min.v
    THEN Points(-NumericPenalty)
    ELSE IF preference.max.k # "undefined" /\ actualValue.v > preference.max.v
    THEN Points(-NumericPenalty)
    ELSE IF preference.min.k # "undefined" /\ preference.max.k # "undefined"
    THEN LET rangeWidth == preference.max.v - preference.min.v
             twiceDistance ==
                 Abs(2 * actualValue.v - preference.min.v - preference.max.v)
             proximity ==
                 IF rangeWidth = 0 THEN NaN
                 ELSE Num(Scale - (twiceDistance * Scale) \div rangeWidth)
             clipped == MathMax(Num(0), proximity)
         IN  IF clipped.nan THEN NaN ELSE Num(NumericBonus * clipped.n)
    ELSE IF preference.min.k = "undefined" /\ preference.max.k = "undefined"
    THEN NaN
    ELSE LET distance ==
                 IF preference.min.k # "undefined"
                 THEN actualValue.v - preference.min.v
                 ELSE preference.max.v - actualValue.v
             left == IF DecayWindow - distance > 0
                     THEN DecayWindow - distance ELSE 0
         IN  Num((NumericBonus * Scale * left) \div DecayWindow)

\* mutant: the bounds are exclusive, a value on a bound is penalised
scoreNumericAttributeExclusive(preference, actualValue) ==
    IF preference.k = "undefined"
       \/ (preference.min.k = "undefined" /\ preference.max.k = "undefined")
    THEN Points(0)
    ELSE IF IsNullish(actualValue) THEN Points(0)
    ELSE IF preference.min.k # "undefined" /\ actualValue.v <= preference.min.v
    THEN Points(-NumericPenalty)
    ELSE IF preference.max.k # "undefined" /\ actualValue.v >= preference.max.v
    THEN Points(-NumericPenalty)
    ELSE IF preference.min.k # "undefined" /\ preference.max.k # "undefined"
    THEN LET rangeWidth == preference.max.v - preference.min.v
             twiceDistance ==
                 Abs(2 * actualValue.v - preference.min.v - preference.max.v)
             proximity ==
                 IF rangeWidth = 0 THEN NaN
                 ELSE Num(Scale - (twiceDistance * Scale) \div rangeWidth)
             clipped == MathMax(Num(0), proximity)
         IN  IF clipped.nan THEN NaN ELSE Num(NumericBonus * clipped.n)
    ELSE LET distance ==
                 IF preference.min.k # "undefined"
                 THEN actualValue.v - preference.min.v
                 ELSE preference.max.v - actualValue.v
             left == IF DecayWindow - distance > 0
                     THEN DecayWindow - distance ELSE 0
         IN  Num((NumericBonus * Scale * left) \div DecayWindow)

\* mutant: the one-sided bonus decays over twice the window
scoreNumericAttributeWideWindow(preference, actualValue) ==
    IF preference.k = "undefined"
       \/ (preference.min.k = "undefined" /\ preference.max.k = "undefined")
    THEN Points(0)
    ELSE IF IsNullish(actualValue) THEN Points(0)
    ELSE IF preference.min.k # "undefined" /\ actualValue.v < preference.min.v
    THEN Points(-NumericPenalty)
    ELSE IF preference.max.k # "undefined" /\ actualValue.v > preference.max.v
    THEN Points(-NumericPenalty)
    ELSE IF preference.min.k # "undefined" /\ preference.max.k # "undefined"
    THEN LET rangeWidth == preference.max.v - preference.min.v
             twiceDistance ==
                 Abs(2 * actualValue.v - preference.min.v - preference.max.v)
             proximity ==
                 IF rangeWidth = 0 THEN NaN
                 ELSE Num(Scale - (twiceDistance * Scale) \div rangeWidth)
             clipped == MathMax(Num(0), proximity)
         IN  IF clipped.nan THEN NaN ELSE Num(NumericBonus * clipped.n)
    ELSE LET distance ==
                 IF preference.min.k # "undefined"
                 THEN actualValue.v - preference.min.v
                 ELSE preference.max.v - actualValue.v
             left == IF 2 * DecayWindow - distance > 0
                     THEN 2 * DecayWindow - distance ELSE 0
         IN  Num((NumericBonus * Scale * left) \div (2 * DecayWindow))

scoreNumericAttribute(preference, actualValue) ==
    IF preference.k = "undefined"
       \/ (preference.min.k = "undefined" /\ preference.max.k = "undefined")
    THEN Points(0)
    ELSE IF IsNullish(actualValue) THEN Points(0)
    ELSE IF preference.min.k # "undefined" /\ actualValue.v < preference.min.v
    THEN Points(-NumericPenalty)
    ELSE IF preference.max.k # "undefined" /\ actualValue.v > preference.max.v
    THEN Points(-NumericPenalty)
    ELSE IF preference.min.k # "undefined" /\ preference.max.k # "undefined"
    THEN \* distance / (rangeWidth / 2) = twiceDistance / rangeWidth, with
         \* twiceDistance = |2 value - min - max|.  Here min <= value <= max,
         \* so rangeWidth >= 0, and rangeWidth = 0 makes the quotient 0 / 0.
         LET rangeWidth == preference.max.v - preference.min.v
             twiceDistance ==
                 Abs(2 * actualValue.v - preference.min.v - preference.max.v)
             proximity ==
                 IF rangeWidth = 0 THEN NaN
                 ELSE Num(Scale - (twiceDistance * Scale) \div rangeWidth)
             clipped == MathMax(Num(0), proximity)
         IN  IF clipped.nan THEN NaN ELSE Num(NumericBonus * clipped.n)
    ELSE IF preference.min.k # "undefined"
    THEN LET distance == actualValue.v - preference.min.v
             left == IF DecayWindow - distance > 0
                     THEN DecayWindow - distance ELSE 0
         IN  Num((NumericBonus * Scale * left) \div DecayWindow)
    ELSE LET distance == preference.max.v - actualValue.v
             left == IF DecayWindow - distance > 0
                     THEN DecayWindow - distance ELSE 0
         IN  Num((NumericBonus * Scale * left) \div DecayWindow)

\* mutant: a mismatch costs no more than a match earns
scoreBooleanAttributeEvenStakes(preference, actualValue) ==
    IF preference.k = "undefined" THEN Points(0)
    ELSE IF IsNullish(actualValue) THEN Points(0)
    ELSE IF actualValue.v = preference.v THEN Points(BooleanBonus)
    ELSE Points(-BooleanBonus)

\* mutant: the unknown-value check is missing, so null counts as a mismatch
scoreBooleanAttributeNullMismatch(preference, actualValue) ==
    IF preference.k = "undefined" THEN Points(0)
    ELSE IF actualValue.k = "value" /\ actualValue.v = preference.v
    THEN Points(BooleanBonus)
    ELSE Points(-BooleanPenalty)

scoreBooleanAttribute(preference, actualValue) ==
    IF preference.k = "undefined" THEN Points(0)
    ELSE IF IsNullish(actualValue) THEN Points(0)
    ELSE IF actualValue.v = preference.v THEN Points(BooleanBonus)
    ELSE Points(-BooleanPenalty)

\* !preference: undefined and the empty string are falsy, an array is not
EnumPreferenceFalsy(preference) ==
    preference.k = "undefined" \/ (preference.k = "string" /\ preference.s = "")

\* mutant: a single value is not wrapped into an array
AcceptableValuesArrayOnly(preference) == preference.a

\* Array.isArray(preference) ? preference : [preference]
AcceptableValues(preference) ==
    IF preference.k = "array" THEN preference.a ELSE {preference.s}

\* mutant: an unacceptable value costs a third of the penalty
scoreEnumAttributeMildPenalty(preference, actualValue) ==
    IF EnumPreferenceFalsy(preference) THEN Points(0)
    ELSE IF IsNullish(actualValue) THEN Points(0)
    ELSE IF actualValue.v \in AcceptableValues(preference)
    THEN Points(EnumBonus)
    ELSE Points(-(EnumPenalty \div 3))

scoreEnumAttribute(preference, actualValue) ==
    IF EnumPreferenceFalsy(preference) THEN Points(0)
    ELSE IF IsNullish(actualValue) THEN Points(0)
    ELSE IF actualValue.v \in AcceptableValues(preference)
    THEN Points(EnumBonus)
    ELSE Points(-EnumPenalty)

(***************************************************************************)
(* Directional and mutual score.                                           *)
(***************************************************************************)
\* the running total before the final clamp: the base score plus, in
\* source order, the contribution of every dimension the seeker states a
\* preference on (a dimension that is skipped adds nothing)
RawScore(seekerPrefs, candidateAttrs) ==
    LET size ==
            IF seekerPrefs.size.k # "undefined"
            THEN scoreNumericAttribute(seekerPrefs.size, candidateAttrs.size)
            ELSE Points(0)
        weight ==
            IF seekerPrefs.weight.k # "undefined"
            THEN scoreNumericAttribute(seekerPrefs.weight,
                                       candidateAttrs.weight)
            ELSE Points(0)
        hasStem ==
            IF seekerPrefs.hasStem.k # "undefined"
            THEN scoreBooleanAttribute(seekerPrefs.hasStem,
                                       candidateAttrs.hasStem)
            ELSE Points(0)
        hasLeaf ==
            IF seekerPrefs.hasLeaf.k # "undefined"
            THEN scoreBooleanAttribute(seekerPrefs.hasLeaf,
                                       candidateAttrs.hasLeaf)
            ELSE Points(0)
        hasWorm ==
            IF seekerPrefs.hasWorm.k # "undefined"
            THEN scoreBooleanAttribute(seekerPrefs.hasWorm,
                                       candidateAttrs.hasWorm)
            ELSE Points(0)
        hasChemicals ==
            IF seekerPrefs.hasChemicals.k # "undefined"
            THEN scoreBooleanAttribute(seekerPrefs.hasChemicals,
                                       candidateAttrs.hasChemicals)
            ELSE Points(0)
        shineFactor ==
            IF ~EnumPreferenceFalsy(seekerPrefs.shineFactor)
            THEN scoreEnumAttribute(seekerPrefs.shineFactor,
                                    candidateAttrs.shineFactor)
            ELSE Points(0)
    IN  FAdd(FAdd(FAdd(FAdd(FAdd(FAdd(FAdd(Points(BaseScore),
            size), weight), hasStem), hasLeaf), hasWorm), hasChemicals),
            shineFactor)

\* mutant: only the upper clamp, Math.min(100, score)
NormalizeUpperOnly(s) == MathMin(Points(MaxScore), s)

\* Math.max(0, Math.min(100, score))
Normalize(s) == MathMax(Points(MinScore), MathMin(Points(MaxScore), s))

\* mutant: a candidate that has no identifier yet scores 0
calculateCompatibilityScoreNeedsId(s, c) ==
    IF c.id.k = "undefined" THEN Points(0)
    ELSE Normalize(RawScore(s.preferences, c.attributes))

\* mutant: the roles are mixed up, the candidate's preferences are scored
\* against the seeker's attributes
calculateCompatibilityScoreSwapped(s, c) ==
    Normalize(RawScore(c.preferences, s.attributes))

calculateCompatibilityScore(s, c) ==
    Normalize(RawScore(s.preferences, c.attributes))

\* mutant: bToA is computed in the same direction as aToB
calculateMutualScoreOneSided(fruitA, fruitB) ==
    LET aToB == calculateCompatibilityScore(fruitA, fruitB)
        bToA == calculateCompatibilityScore(fruitA, fruitB)
    IN  RoundedGeometricMean(aToB, bToA)

calculateMutualScore(fruitA, fruitB) ==
    LET aToB == calculateCompatibilityScore(fruitA, fruitB)
        bToA == calculateCompatibilityScore(fruitB, fruitA)
    IN  RoundedGeometricMean(aToB, bToA)

(***************************************************************************)
(* Ranking: findTopMatches.                                                *)
(***************************************************************************)
\* candidate.id || "unknown"
FruitId(candidate) ==
    IF candidate.id.k = "value" /\ candidate.id.v # ""
    THEN candidate.id.v ELSE "unknown"

\* mutant: the mutual score of a Match is the arithmetic mean
ScoreCandidateArithmeticMean(s, candidate) ==
    LET seekerToFruitScore == calculateCompatibilityScore(s, candidate)
        fruitToSeekerScore == calculateCompatibilityScore(candidate, s)
    IN  [fruit |-> candidate,
         fruitId |-> FruitId(candidate),
         seekerToFruitScore |-> RoundTenths(seekerToFruitScore),
         fruitToSeekerScore |-> RoundTenths(fruitToSeekerScore),
         mutualScore |->
             IF seekerToFruitScore.nan \/ fruitToSeekerScore.nan THEN NaN
             ELSE Num((10 * (seekerToFruitScore.n + fruitToSeekerScore.n)
                          + Scale) \div (2 * Scale))]

\* the Match record built for one candidate (the body of candidates.map);
\* the three scores are in tenths
ScoreCandidate(s, candidate) ==
    LET seekerToFruitScore == calculateCompatibilityScore(s, candidate)
        fruitToSeekerScore == calculateCompatibilityScore(candidate, s)
    IN  [fruit |-> candidate,
         fruitId |-> FruitId(candidate),
         seekerToFruitScore |-> RoundTenths(seekerToFruitScore),
         fruitToSeekerScore |-> RoundTenths(fruitToSeekerScore),
         mutualScore |->
             RoundedGeometricMean(seekerToFruitScore, fruitToSeekerScore)]

ScoredMatches(s, cands) ==
    [i \in 1..Len(cands) |-> ScoreCandidate(s, cands[i])]

\* the comparator (a, b) => b.mutualScore - a.mutualScore as the sort reads
\* it: its sign, with a NaN result taken as +0
CompareMatches(a, b) ==
    IF a.mutualScore.nan \/ b.mutualScore.nan THEN 0
    ELSE IF b.mutualScore.n < a.mutualScore.n THEN -1
    ELSE IF b.mutualScore.n > a.mutualScore.n THEN 1
    ELSE 0

\* whether the comparator is a consistent comparison function for the
\* elements of ms (compare-equal must be transitive)
ConsistentComparator(ms) ==
    \A i, j, k \in 1..Len(ms) :
        (CompareMatches(ms[i], ms[j]) = 0 /\ CompareMatches(ms[j], ms[k]) = 0)
            => CompareMatches(ms[i], ms[k]) = 0

\* the orders of the indices 1..n, as sequences
IndexOrders(n) == {[i \in 1..n |-> p[i]] : p \in Permutations(1..n)}

\* Array.prototype.sort: a stable sort when the comparator is consistent,
\* an implementation-defined order of the same elements when it is not
SortOrders(ms) ==
    IF ConsistentComparator(ms)
    THEN {p \in IndexOrders(Len(ms)) :
            \A i, j \in 1..Len(ms) :
                i < j => \/ CompareMatches(ms[p[i]], ms[p[j]]) < 0
                         \/ /\ CompareMatches(ms[p[i]], ms[p[j]]) = 0
                            /\ p[i] < p[j]}
    ELSE IndexOrders(Len(ms))

\* mutant: the default limit is 10
EffectiveLimitDefaultTen(lim) == IF lim.k = "undefined" THEN 10 ELSE lim.v

\* the limit parameter, 5 when the argument is omitted
EffectiveLimit(lim) == IF lim.k = "undefined" THEN DefaultLimit ELSE lim.v

\* the number of elements slice(0, end) keeps of an array of length n
SliceLength(n, end) ==
    IF end < 0 THEN (IF n + end > 0 THEN n + end ELSE 0)
    ELSE IF end < n THEN end ELSE n

\* the index orders findTopMatches can return: sort, then slice(0, limit)
TopMatchOrders(s, cands, lim) ==
    LET ms == ScoredMatches(s, cands)
    IN  {SubSeq(p, 1, SliceLength(Len(ms), EffectiveLimit(lim))) :
            p \in SortOrders(ms)}

\* the Match list that an index order stands for
MatchesAt(s, cands, order) ==
    [i \in 1..Len(order) |-> ScoreCandidate(s, cands[order[i]])]

(***************************************************************************)
(* Explanations: generateMatchReasons.                                     *)
(* A reason line is kept as its template with the interpolated values:     *)
(* nums are the numbers printed in the holes {}, word is a printed string  *)
(* ("NaN" for a number that is NaN).  Mutual scores are printed in tenths. *)
(***************************************************************************)
Line(template, nums, word) ==
    [template |-> template, nums |-> nums, word |-> word]

\* mutant: the range line is pushed without comparing the value to the bounds
RangeReasonUnchecked(template, preference, actualValue) ==
    IF /\ preference.k # "undefined"
       /\ ~IsNullish(actualValue)
       /\ preference.min.k # "undefined" /\ preference.max.k # "undefined"
    THEN <<Line(template,
                <<actualValue.v, preference.min.v, preference.max.v>>, "")>>
    ELSE <<>>

\* the line of a numeric dimension: the preference object exists, the
\* value is known, both bounds are given and min <= value <= max
RangeReason(template, preference, actualValue) ==
    IF /\ preference.k # "undefined"
       /\ ~IsNullish(actualValue)
       /\ preference.min.k # "undefined" /\ preference.max.k # "undefined"
       /\ actualValue.v >= preference.min.v
       /\ actualValue.v <= preference.max.v
    THEN <<Line(template,
                <<actualValue.v, preference.min.v, preference.max.v>>, "")>>
    ELSE <<>>

\* seekerPrefs.hasWorm === false && matchAttrs.hasWorm === false
WormReason(preference, actualValue) ==
    IF preference = Val(FALSE) /\ actualValue = Val(FALSE)
    THEN <<Line("Worm-free as preferred", <<>>, "")>>
    ELSE <<>>

\* the line of hasStem, hasLeaf, hasChemicals: a stated preference that the
\* attribute strictly equals, worded after the preferred value
BooleanReason(ifTrue, ifFalse, preference, actualValue) ==
    IF preference.k # "undefined" /\ actualValue = Val(preference.v)
    THEN <<Line(IF preference.v THEN ifTrue ELSE ifFalse, <<>>, "")>>
    ELSE <<>>

\* both the preference and the attribute are truthy, and the attribute is
\* among the acceptable values
ShineReason(preference, actualValue) ==
    IF /\ ~EnumPreferenceFalsy(preference)
       /\ actualValue.k = "value" /\ actualValue.v # ""
       /\ actualValue.v \in AcceptableValues(preference)
    THEN <<Line("Shine factor ({}) matches preference", <<>>,
                actualValue.v)>>
    ELSE <<>>

\* the lines pushed for the seven dimensions, in source order
PreferenceReasons(seekerPrefs, matchAttrs) ==
    RangeReason("Size {} is within preferred range {}-{}",
                seekerPrefs.size, matchAttrs.size)
    \o RangeReason("Weight {} is within preferred range {}-{}",
                   seekerPrefs.weight, matchAttrs.weight)
    \o WormReason(seekerPrefs.hasWorm, matchAttrs.hasWorm)
    \o BooleanReason("Has a stem", "No stem",
                     seekerPrefs.hasStem, matchAttrs.hasStem)
    \o BooleanReason("Has a leaf", "No leaf",
                     seekerPrefs.hasLeaf, matchAttrs.hasLeaf)
    \o BooleanReason("Treated with chemicals", "Chemical-free",
                     seekerPrefs.hasChemicals, matchAttrs.hasChemicals)
    \o ShineReason(seekerPrefs.shineFactor, matchAttrs.shineFactor)

\* `${match.mutualScore}% mutual compatibility score`
MutualScoreReason(match) ==
    IF match.mutualScore.nan
    THEN Line("{}% mutual compatibility score", <<>>, "NaN")
    ELSE Line("{}% mutual compatibility score", <<match.mutualScore.n>>, "")

\* mutant: the mutual score line is pushed before the other reasons
generateMatchReasonsScoreFirst(s, match) ==
    <<MutualScoreReason(match)>>
    \o PreferenceReasons(s.preferences, match.fruit.attributes)

generateMatchReasons(s, match) ==
    PreferenceReasons(s.preferences, match.fruit.attributes)
    \o <<MutualScoreReason(match)>>

(***************************************************************************)
(* Natural-language explanation: generateMatchExplanation (llm.ts).        *)
(* The text generation service either returns a text or throws.  A        *)
(* message is kept as its opening template and the values put into it.     *)
(***************************************************************************)
\* what generateText can do
LlmResults == {"returns", "throws"}

Message(source, opening, count, opposite, closing, mutualScore, topReasons) ==
    [source |-> source, opening |-> opening, count |-> count,
     opposite |-> opposite, closing |-> closing, mutualScore |-> mutualScore,
     topReasons |-> topReasons]

\* response.text
LlmMessage == Message("llm", "response.text", 0, "", "", Num(0), <<>>)

\* r.includes("compatibility score"): of all the templates only the
\* mutual score line contains these words
IncludesCompatibilityScore(line) ==
    line.template = "{}% mutual compatibility score"

\* reasons.filter(r => !r.includes("compatibility score"))
RECURSIVE WithoutScoreLines(_)
WithoutScoreLines(lines) ==
    IF lines = <<>> THEN <<>>
    ELSE IF IncludesCompatibilityScore(Head(lines))
    THEN WithoutScoreLines(Tail(lines))
    ELSE <<Head(lines)>> \o WithoutScoreLines(Tail(lines))

\* the sentence chosen after the mutual score of the best match (tenths)
ClosingFor(mutualScore) ==
    IF FGeq(mutualScore, Num(800)) THEN "This is an excellent match! "
    ELSE IF FGeq(mutualScore, Num(600))
    THEN "This could be a great connection! "
    ELSE "There's potential here! "

generateFallbackMessage(fruit, matches) ==
    IF Len(matches) = 0
    THEN Message("template", "No matches found at the moment.", 0,
                 IF fruit.type = "apple" THEN "oranges" ELSE "apples",
                 "", Num(0), <<>>)
    ELSE LET bestMatch == matches[1]
             oppositeType == IF fruit.type = "apple" THEN "orange" ELSE "apple"
             kept == WithoutScoreLines(generateMatchReasons(fruit, bestMatch))
             topReasons == SubSeq(kept, 1, IF Len(kept) < 2 THEN Len(kept) ELSE 2)
         IN  Message("template", "Great news! We found", Len(matches),
                     oppositeType, ClosingFor(bestMatch.mutualScore),
                     bestMatch.mutualScore, topReasons)

\* mutant: no catch around the call of the text generation service
generateMatchExplanationNoCatch(fruit, matches, llm) ==
    IF llm = "returns"
    THEN [outcome |-> "returned", llm |-> llm, message |-> LlmMessage]
    ELSE [outcome |-> "threw", llm |-> llm, message |-> <<>>]

\* the prompt is assembled without a call that can throw; the call of the
\* service returns the text or lands in the catch block
generateMatchExplanation(fruit, matches, llm) ==
    IF llm = "returns"
    THEN [outcome |-> "returned", llm |-> llm, message |-> LlmMessage]
    ELSE [outcome |-> "returned", llm |-> llm,
          message |-> generateFallbackMessage(fruit, matches)]

(***************************************************************************)
(* Inputs.                                                                 *)
(***************************************************************************)
BoundValues == 0..MaxBound

AttributeValues == 0..MaxValue

OptionalBounds == {Undef(0)} \cup {Val(x) : x \in BoundValues}

\* every pair of optional bounds, and an upper bound alone that is far
\* enough above the small values for its bonus to have decayed to nothing
RangePreferences ==
    {NoRange} \cup {Range(lo, hi) : lo \in OptionalBounds, hi \in OptionalBounds}
        \cup {Range(Undef(0), Val(MaxValue))}

BooleanPreferences == {Undef(FALSE), Val(TRUE), Val(FALSE)}

ShinePreferences ==
    {NoShine} \cup {ShineString(x) : x \in ShineFactors \cup {""}}
        \cup {ShineArray(xs) : xs \in {ys \in SUBSET ShineFactors :
                                          Cardinality(ys) <= 2}}

NumericAttributes ==
    {Null(0), Undef(0)} \cup {Val(x) : x \in AttributeValues}

BooleanAttributes == {Null(FALSE), Val(TRUE), Val(FALSE)}

ShineAttributes == {Null("")} \cup {Val(x) : x \in ShineFactors}

Fruit(id, type, attributes, preferences) ==
    [id |-> id, type |-> type, attributes |-> attributes,
     preferences |-> preferences]

Attributes(size, weight, hasStem, hasLeaf, hasWorm, shineFactor, hasChemicals) ==
    [size |-> size, weight |-> weight, hasStem |-> hasStem,
     hasLeaf |-> hasLeaf, hasWorm |-> hasWorm, shineFactor |-> shineFactor,
     hasChemicals |-> hasChemicals]

\* states nothing, knows nothing
Blank == Fruit(Val("fruits:blank"), "apple", UnknownAttributes, NoPreferences)

\* states a preference on every dimension and satisfies all of them itself
Keen ==
    Fruit(Val("fruits:keen"), "apple",
          Attributes(Val(2), Val(1), Val(TRUE), Val(TRUE), Val(FALSE),
                     Val("shiny"), Val(FALSE)),
          [size |-> Range(Val(1), Val(3)), weight |-> Range(Val(1), Undef(0)),
           hasStem |-> Val(TRUE), hasLeaf |-> Val(TRUE),
           hasWorm |-> Val(FALSE),
           shineFactor |-> ShineArray({"shiny", "extraShiny"}),
           hasChemicals |-> Val(FALSE)])

\* violates every preference of Keen
Shabby ==
    Fruit(Val("fruits:shabby"), "orange",
          Attributes(Val(0), Val(0), Val(FALSE), Val(FALSE), Val(TRUE),
                     Val("dull"), Val(TRUE)),
          [NoPreferences EXCEPT !.size = Range(Undef(0), Val(1)),
                                !.hasWorm = Val(TRUE)])

\* no preferences, attributes that satisfy Keen
Plain ==
    Fruit(Val("fruits:plain"), "orange",
          Attributes(Val(2), Val(2), Val(TRUE), Val(TRUE), Val(FALSE),
                     Val("shiny"), Val(FALSE)),
          NoPreferences)

\* the same fruit stored a second time
PlainTwin == [Plain EXCEPT !.id = Val("fruits:twin")]

\* a single acceptable size, min = max; not stored yet, so without an id
Picky ==
    Fruit(Undef(""), "orange",
          Attributes(Val(2), Val(3), Val(TRUE), Val(FALSE), Val(FALSE),
                     Val("neutral"), Val(FALSE)),
          [NoPreferences EXCEPT !.size = Range(Val(2), Val(2)),
                                !.hasStem = Val(TRUE)])

BaseFruits == {Blank, Keen, Shabby}

\* a base fruit with one preference replaced by any value of its domain
PreferenceVariants(f) ==
    {[f EXCEPT !.preferences.size = x] : x \in RangePreferences}
    \cup {[f EXCEPT !.preferences.weight = x] : x \in RangePreferences}
    \cup {[f EXCEPT !.preferences.hasStem = x] : x \in BooleanPreferences}
    \cup {[f EXCEPT !.preferences.hasLeaf = x] : x \in BooleanPreferences}
    \cup {[f EXCEPT !.preferences.hasWorm = x] : x \in BooleanPreferences}
    \cup {[f EXCEPT !.preferences.hasChemicals = x] : x \in BooleanPreferences}
    \cup {[f EXCEPT !.preferences.shineFactor = x] : x \in ShinePreferences}

\* a base fruit with one attribute replaced by any value of its domain
AttributeVariants(f) ==
    {[f EXCEPT !.attributes.size = x] : x \in NumericAttributes}
    \cup {[f EXCEPT !.attributes.weight = x] : x \in NumericAttributes}
    \cup {[f EXCEPT !.attributes.hasStem = x] : x \in BooleanAttributes}
    \cup {[f EXCEPT !.attributes.hasLeaf = x] : x \in BooleanAttributes}
    \cup {[f EXCEPT !.attributes.hasWorm = x] : x \in BooleanAttributes}
    \cup {[f EXCEPT !.attributes.hasChemicals = x] : x \in BooleanAttributes}
    \cup {[f EXCEPT !.attributes.shineFactor = x] : x \in ShineAttributes}

\* the fruits the scorers are exercised on
Fruits ==
    UNION {PreferenceVariants(f) \cup AttributeVariants(f) : f \in BaseFruits}

\* the fruits the ranker is exercised on
Pool == {Keen, Shabby, Plain, PlainTwin, Picky}

RECURSIVE SeqsUpTo(_, _)
SeqsUpTo(S, n) ==
    IF n = 0 THEN {<<>>}
    ELSE LET shorter == SeqsUpTo(S, n - 1)
         IN  shorter \cup {Append(s, x) : s \in {t \in shorter : Len(t) = n - 1},
                                          x \in S}

\* a candidate list longer than the default limit
Crowd == <<Shabby, Plain, Keen, PlainTwin, Blank, Picky>>

CandidateLists == SeqsUpTo(Pool, MaxCandidates) \cup {Crowd}

Limits == {Undef(0)} \cup {Val(n) : n \in 0..MaxLimit}

(***************************************************************************)
(* State machine.  op names the call that produced the current outputs.    *)
(***************************************************************************)
\* no explanation has been asked for
NoExplanation == [outcome |-> "none", llm |-> "none", message |-> <<>>]

\* the engine is called on its own: no table, no request
NoServer ==
    /\ fruitsTable = <<>>
    /\ matchesTable = EmptyBag
    /\ conversationsTable = EmptyBag
    /\ requests = <<>>

\* ranking calls: a seeker, a candidate list and a limit
Init ==
    /\ seeker \in Pool
    /\ candidates \in CandidateLists
    /\ limit \in Limits
    /\ op = "idle"
    /\ score = Num(0)
    /\ mutual = Num(0)
    /\ result = [order |-> <<>>, matches |-> <<>>]
    /\ reasons = <<>>
    /\ explanation = NoExplanation
    /\ NoServer

\* scoring calls: a seeker and one candidate
InitScore ==
    /\ seeker \in Fruits
    /\ candidates \in {<<c>> : c \in Fruits}
    /\ limit = Undef(0)
    /\ op = "idle"
    /\ score = Num(0)
    /\ mutual = Num(0)
    /\ result = [order |-> <<>>, matches |-> <<>>]
    /\ reasons = <<>>
    /\ explanation = NoExplanation
    /\ NoServer

CalculateCompatibilityScore ==
    /\ op = "idle"
    /\ Len(candidates) = 1
    /\ score' = calculateCompatibilityScore(seeker, candidates[1])
    /\ op' = "calculateCompatibilityScore"
    /\ UNCHANGED <<seeker, candidates, limit, mutual, result, reasons, explanation>>
    /\ UNCHANGED serverVars

CalculateMutualScore ==
    /\ op = "idle"
    /\ Len(candidates) = 1
    /\ mutual' = calculateMutualScore(seeker, candidates[1])
    /\ op' = "calculateMutualScore"
    /\ UNCHANGED <<seeker, candidates, limit, score, result, reasons, explanation>>
    /\ UNCHANGED serverVars

\* mutant: the candidate list itself is put in ranking order
FindTopMatchesSortsCandidates ==
    /\ op = "idle"
    /\ \E p \in SortOrders(ScoredMatches(seeker, candidates)) :
          LET order == SubSeq(p, 1, SliceLength(Len(p), EffectiveLimit(limit)))
          IN  /\ candidates' = [i \in 1..Len(p) |-> candidates[p[i]]]
              /\ result' = [order |-> order,
                            matches |-> MatchesAt(seeker, candidates, order)]
    /\ op' = "findTopMatches"
    /\ UNCHANGED <<seeker, limit, score, mutual, reasons, explanation>>
    /\ UNCHANGED serverVars

\* result.order is the input position of each returned Match's fruit
FindTopMatches ==
    /\ op = "idle"
    /\ \E order \in TopMatchOrders(seeker, candidates, limit) :
          result' = [order |-> order,
                     matches |-> MatchesAt(seeker, candidates, order)]
    /\ op' = "findTopMatches"
    /\ UNCHANGED <<seeker, candidates, limit, score, mutual, reasons, explanation>>
    /\ UNCHANGED serverVars

\* the explanation of the Match that the ranker builds for the candidate
GenerateMatchReasons ==
    /\ op = "idle"
    /\ Len(candidates) = 1
    /\ LET match == ScoreCandidate(seeker, candidates[1])
       IN  /\ result' = [order |-> <<1>>, matches |-> <<match>>]
           /\ reasons' = generateMatchReasons(seeker, match)
    /\ op' = "generateMatchReasons"
    /\ UNCHANGED <<seeker, candidates, limit, score, mutual, explanation>>
    /\ UNCHANGED serverVars

\* the explanation of the matches a ranking call has returned
GenerateMatchExplanation ==
    /\ op = "findTopMatches"
    /\ \E llm \in LlmResults :
          explanation' = generateMatchExplanation(seeker, result.matches, llm)
    /\ op' = "generateMatchExplanation"
    /\ UNCHANGED <<seeker, candidates, limit, score, mutual, result, reasons>>
    /\ UNCHANGED serverVars

Next == FindTopMatches

NextScore ==
    CalculateCompatibilityScore \/ CalculateMutualScore \/ GenerateMatchReasons

Spec == Init /\ [][Next]_vars

SpecScore == InitScore /\ [][NextScore]_vars

\* scoring calls of every seeker on a handful of candidates, for the
\* properties that compare a call with the calls on altered inputs
InitSeekers ==
    /\ seeker \in Fruits
    /\ candidates \in {<<c>> : c \in BaseFruits \cup Pool}
    /\ limit = Undef(0)
    /\ op = "idle"
    /\ score = Num(0)
    /\ mutual = Num(0)
    /\ result = [order |-> <<>>, matches |-> <<>>]
    /\ reasons = <<>>
    /\ explanation = NoExplanation
    /\ NoServer

SpecSeekers == InitSeekers /\ [][NextScore]_vars

\* ranking calls followed by the explanation of their result
NextExplain == FindTopMatches \/ GenerateMatchExplanation

SpecExplain == Init /\ [][NextExplain]_vars

\* every call of the engine, on the inputs of the ranking calls
NextCalls == Next \/ NextScore

SpecCalls == Init /\ [][NextCalls]_vars

(***************************************************************************)
(* The edge functions: get-incoming-apple, get-incoming-orange and         *)
(* send-message.  Every request is a process of its own; its awaits are    *)
(* the points where the requests interleave, and every call of the         *)
(* database or of a service either returns or throws.                      *)
(***************************************************************************)
\* requests in flight or served; every request stores at most one fruit
MaxRequests == 2

IncomingHandlers == {"get-incoming-apple", "get-incoming-orange"}

\* generateApple() and generateOrange(): a new fruit of the handler's
\* type, not stored yet and so without an id
Generated(handler) ==
    IF handler = "get-incoming-apple"
    THEN {[Keen EXCEPT !.id = Undef("")], [Blank EXCEPT !.id = Undef("")]}
    ELSE {Picky}

\* the record ids the database hands out for the fruits table
RecordIds == <<"fruits:1", "fruits:2", "fruits:3", "fruits:4">>

\* a request: the handler's position, its variable db (set once
\* connectToSurrealDB has returned), the socket of its connection, the
\* number of calls of db.close(), its fruit, its matches and how many of
\* them are stored, the conversation asked for and the response status
Request(handler, pc, fruit, conversation, status) ==
    [handler |-> handler, pc |-> pc, db |-> FALSE, socket |-> "none",
     closes |-> 0, fruit |-> fruit, matches |-> <<>>, inserted |-> 0,
     conversation |-> conversation, status |-> status]

At(i, pc) == i \in 1..Len(requests) /\ requests[i].pc = pc

\* the request throws at its current position: on to the catch block,
\* where the constants of the try block are out of scope
Throw(i) ==
    requests' = [requests EXCEPT ![i].pc = "catch", ![i].matches = <<>>,
                                 ![i].inserted = 0]

\* the handler returns a response; its match list is gone with it
Return(r, status) ==
    [r EXCEPT !.status = status, !.pc = "done", !.matches = <<>>,
              !.inserted = 0]

\* db.close()
Closed(r) == [r EXCEPT !.socket = "closed", !.closes = @ + 1]

\* mutant: the connection is left to the garbage collector
FinallyKeepsOpen(r) == r

\* the finally block of the get-incoming handlers: if (db) db.close()
Finally(r) == IF r.db THEN Closed(r) ELSE r

\* convertNullToUndefined on one value: null becomes undefined
NullToUndefined(x) == IF x.k = "null" THEN [x EXCEPT !.k = "undefined"] ELSE x

\* convertNullToUndefined on the data of a fruit: every attribute, every
\* preference and the bounds of the ranges
convertNullToUndefined(fruit) ==
    [fruit EXCEPT
       !.attributes = [d \in DOMAIN fruit.attributes |->
                          NullToUndefined(fruit.attributes[d])],
       !.preferences =
           [d \in DOMAIN fruit.preferences |->
               IF d \in {"size", "weight"}
               THEN [NullToUndefined(fruit.preferences[d]) EXCEPT
                       !.min = NullToUndefined(@),
                       !.max = NullToUndefined(@)]
               ELSE NullToUndefined(fruit.preferences[d])]]

\* the rows SELECT * FROM fruits WHERE type = $type returns
FruitsOfType(table, type) == SelectSeq(table, LAMBDA f : f.type = type)

\* the Match lists findTopMatchesFromDB can return for a seeker
findTopMatchesFromDB(table, s, lim) ==
    LET oppositeType == IF s.type = "apple" THEN "orange" ELSE "apple"
        cands == FruitsOfType(table, oppositeType)
    IN  IF Len(cands) = 0 THEN {<<>>}
        ELSE {MatchesAt(s, cands, order) :
                order \in TopMatchOrders(s, cands, Val(lim))}

\* mutant: both handlers write the seeker's direction first
MatchRecordSeekerFirst(handler, fruitId, match) ==
    [apple_id |-> IF handler = "get-incoming-apple"
                  THEN fruitId ELSE match.fruitId,
     orange_id |-> IF handler = "get-incoming-apple"
                   THEN match.fruitId ELSE fruitId,
     apple_to_orange_score |-> match.seekerToFruitScore,
     orange_to_apple_score |-> match.fruitToSeekerScore,
     mutual_score |-> match.mutualScore]

\* the row a handler writes to the matches table for one match
MatchRecord(handler, fruitId, match) ==
    IF handler = "get-incoming-apple"
    THEN [apple_id |-> fruitId,
          orange_id |-> match.fruitId,
          apple_to_orange_score |-> match.seekerToFruitScore,
          orange_to_apple_score |-> match.fruitToSeekerScore,
          mutual_score |-> match.mutualScore]
    ELSE [apple_id |-> match.fruitId,
          orange_id |-> fruitId,
          apple_to_orange_score |-> match.fruitToSeekerScore,
          orange_to_apple_score |-> match.seekerToFruitScore,
          mutual_score |-> match.mutualScore]

InitServer ==
    /\ seeker = Blank
    /\ candidates = <<>>
    /\ limit = Undef(0)
    /\ op = "idle"
    /\ score = Num(0)
    /\ mutual = Num(0)
    /\ result = [order |-> <<>>, matches |-> <<>>]
    /\ reasons = <<>>
    /\ explanation = NoExplanation
    /\ NoServer

\* a request for a new fruit arrives: the fruit is generated
ReceiveIncoming ==
    /\ Len(requests) < MaxRequests
    /\ \E handler \in IncomingHandlers :
          \E fruit \in Generated(handler) :
              requests' =
                  Append(requests, Request(handler, "connect", fruit, 0, 0))
    /\ UNCHANGED <<fruitsTable, matchesTable, conversationsTable>>
    /\ UNCHANGED engineVars

\* a chat message arrives: 400 when the body lacks a field; the
\* conversation asked for is the first one the database hands out, which
\* exists once a get-incoming request has created it
ReceiveMessage ==
    /\ Len(requests) < MaxRequests
    /\ \E complete \in BOOLEAN, conversationId \in {1} :
          requests' =
              Append(requests,
                     IF complete
                     THEN Request("send-message", "connect", Blank,
                                  conversationId, 0)
                     ELSE Request("send-message", "done", Blank, 0, 400))
    /\ UNCHANGED <<fruitsTable, matchesTable, conversationsTable>>
    /\ UNCHANGED engineVars

\* db = await connectToSurrealDB(): db.connect opens the socket, db.signin
\* and db.use follow; when one of the three throws the function throws and
\* the handler's db stays unset, with the socket open if it was db.signin
\* or db.use that threw
ConnectToSurrealDB(i) ==
    /\ At(i, "connect")
    /\ \/ requests' =
              [requests EXCEPT
                 ![i].socket = "open",
                 ![i].db = TRUE,
                 ![i].pc = IF requests[i].handler = "send-message"
                           THEN "conversation" ELSE "store"]
       \/ requests' = [requests EXCEPT ![i].socket = "open",
                                       ![i].pc = "catch"]
       \/ Throw(i)
    /\ UNCHANGED <<fruitsTable, matchesTable, conversationsTable>>
    /\ UNCHANGED engineVars

\* db.create("fruits", ...) and the id put on the fruit
StoreFruit(i) ==
    /\ At(i, "store")
    /\ \/ LET id == Val(RecordIds[Len(fruitsTable) + 1])
          IN  /\ fruitsTable' =
                    Append(fruitsTable,
                           [convertNullToUndefined(requests[i].fruit)
                              EXCEPT !.id = id])
              /\ requests' = [requests EXCEPT ![i].fruit.id = id,
                                              ![i].pc = "match"]
       \/ Throw(i) /\ UNCHANGED fruitsTable
    /\ UNCHANGED <<matchesTable, conversationsTable>>
    /\ UNCHANGED engineVars

\* findTopMatchesFromDB(db, fruit, 5)
FindTopMatchesFromDB(i) ==
    /\ At(i, "match")
    /\ \/ \E matches \in findTopMatchesFromDB(fruitsTable, requests[i].fruit, 5) :
             requests' = [requests EXCEPT ![i].matches = matches,
                                          ![i].pc = "insert"]
       \/ Throw(i)
    /\ UNCHANGED <<fruitsTable, matchesTable, conversationsTable>>
    /\ UNCHANGED engineVars

\* one turn of the loop over the matches: db.create("matches", ...)
InsertMatch(i) ==
    /\ At(i, "insert")
    /\ requests[i].inserted < Len(requests[i].matches)
    /\ \/ /\ matchesTable' =
                matchesTable
                  (+) SetToBag({MatchRecord(
                          requests[i].handler, requests[i].fruit.id.v,
                          requests[i].matches[requests[i].inserted + 1])})
          /\ requests' = [requests EXCEPT ![i].inserted = @ + 1]
       \/ Throw(i) /\ UNCHANGED matchesTable
    /\ UNCHANGED <<fruitsTable, conversationsTable>>
    /\ UNCHANGED engineVars

\* after the loop: the explanation (which never throws), the conversation
\* record and the initial messages, then the 200 response and the finally
\* block
Respond(i) ==
    /\ At(i, "insert")
    /\ requests[i].inserted = Len(requests[i].matches)
    /\ \E llm \in LlmResults :
          generateMatchExplanation(requests[i].fruit, requests[i].matches,
                                   llm).outcome = "returned"
    /\ \/ Throw(i) /\ UNCHANGED conversationsTable
       \/ /\ conversationsTable' =
                conversationsTable
                  (+) SetToBag({[fruit_id |-> requests[i].fruit.id.v]})
          /\ \/ Throw(i)
             \/ requests' =
                   [requests EXCEPT
                      ![i] = Finally(Return(requests[i], 200))]
    /\ UNCHANGED <<fruitsTable, matchesTable>>
    /\ UNCHANGED engineVars

\* the catch block of the get-incoming handlers: the 500 response, and
\* the finally block
Catch(i) ==
    /\ At(i, "catch")
    /\ requests[i].handler \in IncomingHandlers
    /\ requests' =
          [requests EXCEPT
             ![i] = Finally(Return(requests[i], 500))]
    /\ UNCHANGED <<fruitsTable, matchesTable, conversationsTable>>
    /\ UNCHANGED engineVars

\* send-message: the conversation is looked up; 404 when there is none
QueryConversation(i) ==
    /\ At(i, "conversation")
    /\ \/ /\ requests[i].conversation <= BagCardinality(conversationsTable)
          /\ requests' = [requests EXCEPT ![i].pc = "prepare"]
       \/ /\ requests[i].conversation > BagCardinality(conversationsTable)
          /\ requests' = [requests EXCEPT ![i] = Return(requests[i], 404)]
       \/ Throw(i)
    /\ UNCHANGED <<fruitsTable, matchesTable, conversationsTable>>
    /\ UNCHANGED engineVars

\* send-message: the matches and messages are read, the user's message is
\* stored, the key is looked up and the stream is started
StartStream(i) ==
    /\ At(i, "prepare")
    /\ \/ requests' = [requests EXCEPT ![i].status = 200,
                                       ![i].pc = "streaming"]
       \/ Throw(i)
    /\ UNCHANGED <<fruitsTable, matchesTable, conversationsTable>>
    /\ UNCHANGED engineVars

\* send-message: onFinish stores the assistant's message and closes; a
\* failure, that of the close included, leads to the close of its catch
OnFinish(i) ==
    /\ At(i, "streaming")
    /\ \E stored \in BOOLEAN, closeThrows \in BOOLEAN :
          requests' =
              [requests EXCEPT
                 ![i] = IF stored /\ closeThrows
                        THEN [Closed(Closed(requests[i])) EXCEPT !.pc = "done"]
                        ELSE [Closed(requests[i]) EXCEPT !.pc = "done"]]
    /\ UNCHANGED <<fruitsTable, matchesTable, conversationsTable>>
    /\ UNCHANGED engineVars

\* the catch block of send-message: close if db is set, the 500 response
CatchMessage(i) ==
    /\ At(i, "catch")
    /\ requests[i].handler = "send-message"
    /\ requests' =
          [requests EXCEPT
             ![i] = IF requests[i].db
                    THEN Closed(Return(requests[i], 500))
                    ELSE Return(requests[i], 500)]
    /\ UNCHANGED <<fruitsTable, matchesTable, conversationsTable>>
    /\ UNCHANGED engineVars

NextServer ==
    \/ ReceiveIncoming
    \/ ReceiveMessage
    \/ \E i \in 1..MaxRequests : ConnectToSurrealDB(i)
    \/ \E i \in 1..MaxRequests : StoreFruit(i)
    \/ \E i \in 1..MaxRequests : FindTopMatchesFromDB(i)
    \/ \E i \in 1..MaxRequests : InsertMatch(i)
    \/ \E i \in 1..MaxRequests : Respond(i)
    \/ \E i \in 1..MaxRequests : Catch(i)
    \/ \E i \in 1..MaxRequests : QueryConversation(i)
    \/ \E i \in 1..MaxRequests : StartStream(i)
    \/ \E i \in 1..MaxRequests : OnFinish(i)
    \/ \E i \in 1..MaxRequests : CatchMessage(i)

SpecServer == InitServer /\ [][NextServer]_vars

(***************************************************************************)
(* Properties.                                                             *)
(***************************************************************************)
Dimensions ==
    {"size", "weight", "hasStem", "hasLeaf", "hasWorm", "shineFactor",
     "hasChemicals"}

\* the candidate of a scoring call
Candidate == candidates[1]

\* a score of p points, 0 <= p <= 100, in units of 1/Scale
InScoreRange(x) == FGeq(x, Points(0)) /\ FGeq(Points(100), x)

\* a rounded score between 0.0 and 100.0, in tenths
InTenthsRange(x) == FGeq(x, Num(0)) /\ FGeq(Num(1000), x)

\* the fruit f with its preference on dimension d removed
WithoutPreference(f, d) ==
    [f EXCEPT !.preferences = [@ EXCEPT ![d] = NoPreferences[d]]]

\* 50 plus the seven scorer results, each scorer applied unconditionally
ContributionSum(s, c) ==
    LET p == s.preferences
        a == c.attributes
    IN  FAdd(Points(50),
        FAdd(scoreNumericAttribute(p.size, a.size),
        FAdd(scoreNumericAttribute(p.weight, a.weight),
        FAdd(scoreBooleanAttribute(p.hasStem, a.hasStem),
        FAdd(scoreBooleanAttribute(p.hasLeaf, a.hasLeaf),
        FAdd(scoreBooleanAttribute(p.hasWorm, a.hasWorm),
        FAdd(scoreBooleanAttribute(p.hasChemicals, a.hasChemicals),
             scoreEnumAttribute(p.shineFactor, a.shineFactor))))))))

\* C1: every directional score returned by calculateCompatibilityScore and
\* every mutual score returned by calculateMutualScore lies in [0, 100].
C1_ScoresInRange ==
    /\ op = "calculateCompatibilityScore" => InScoreRange(score)
    /\ op = "calculateMutualScore" => InTenthsRange(mutual)

\* C2: a seeker without any preference scores every candidate exactly 50,
\* and two fruits without preferences have mutual score exactly 50.
C2_NoPreferencesScoreFifty ==
    /\ (op = "calculateCompatibilityScore"
        /\ seeker.preferences = NoPreferences)
           => score = Points(50)
    /\ (op = "calculateMutualScore"
        /\ seeker.preferences = NoPreferences
        /\ Candidate.preferences = NoPreferences)
           => mutual = Num(500)

\* C2 witness: a seeker without preferences has scored a candidate that has
\* known attributes and preferences of its own.
C2_Witness ==
    /\ op = "calculateCompatibilityScore"
    /\ seeker.preferences = NoPreferences
    /\ Candidate.attributes # UnknownAttributes
    /\ Candidate.preferences # NoPreferences
    /\ score = Points(50)

\* C3: on every dimension where the candidate's attribute is null or
\* undefined, the score equals the score of the same call with the seeker's
\* preference on that dimension removed.
C3_UnknownAttributeIsNeutral ==
    op = "calculateCompatibilityScore" =>
        \A d \in Dimensions :
            IsNullish(Candidate.attributes[d]) =>
                score = calculateCompatibilityScore(
                            WithoutPreference(seeker, d), Candidate)

\* C3 witness: the seeker states a boolean preference on a dimension whose
\* attribute the candidate does not know, next to preferences that do count.
C3_Witness ==
    /\ op = "calculateCompatibilityScore"
    /\ seeker.preferences.hasWorm.k = "value"
    /\ IsNullish(Candidate.attributes.hasWorm)
    /\ score # Points(50)
    /\ ~score.nan

\* C4: the mutual score does not depend on the order of its two arguments.
C4_MutualScoreSymmetric ==
    op = "calculateMutualScore" =>
        mutual = calculateMutualScore(Candidate, seeker)

\* C4 witness: a mutual score of two fruits whose directional scores differ.
C4_Witness ==
    /\ op = "calculateMutualScore"
    /\ ~mutual.nan
    /\ mutual.n > 0
    /\ calculateCompatibilityScore(seeker, Candidate)
         # calculateCompatibilityScore(Candidate, seeker)

\* C5: whenever one of the two directional scores is 0, the mutual score is
\* 0, in calculateMutualScore and in every Match built by findTopMatches.
C5_ZeroDirectionZeroMutual ==
    /\ (op = "calculateMutualScore"
        /\ (\/ calculateCompatibilityScore(seeker, Candidate) = Points(0)
            \/ calculateCompatibilityScore(Candidate, seeker) = Points(0)))
           => mutual = Num(0)
    /\ op = "findTopMatches" =>
          \A i \in 1..Len(result.matches) :
              (\/ calculateCompatibilityScore(seeker, result.matches[i].fruit)
                    = Points(0)
               \/ calculateCompatibilityScore(result.matches[i].fruit, seeker)
                    = Points(0))
                  => result.matches[i].mutualScore = Num(0)

\* C6: the list returned by findTopMatches is ordered by non-increasing
\* mutualScore: result[i].mutualScore >= result[i+1].mutualScore.
C6_SortedDescending ==
    op = "findTopMatches" =>
        \A i \in 1..(Len(result.matches) - 1) :
            FGeq(result.matches[i].mutualScore,
                 result.matches[i + 1].mutualScore)

\* C7: findTopMatches returns exactly min(limit, n) Match records for a
\* list of n candidates, the limit being 5 when it is not given.
C7_ResultLength ==
    op = "findTopMatches" =>
        LET lim == IF limit.k = "undefined" THEN 5 ELSE limit.v
            n == Len(candidates)
        IN  Len(result.matches) = IF lim < n THEN lim ELSE n

\* C7 witness: a call without a limit on more than five candidates has
\* returned five matches.
C7_Witness ==
    /\ op = "findTopMatches"
    /\ limit.k = "undefined"
    /\ Len(candidates) > 5
    /\ Len(result.matches) = 5

\* C8: the returned matches are distinct occurrences of the candidate
\* list, and no candidate left out has a mutual score above that of a
\* returned match.
C8_TopOfThePool ==
    op = "findTopMatches" =>
        /\ \A i \in 1..Len(result.order) :
              /\ result.order[i] \in 1..Len(candidates)
              /\ result.matches[i].fruit = candidates[result.order[i]]
        /\ \A i, j \in 1..Len(result.order) :
              i # j => result.order[i] # result.order[j]
        /\ \A j \in 1..Len(candidates) :
              (\A i \in 1..Len(result.order) : result.order[i] # j) =>
                  \A i \in 1..Len(result.matches) :
                      FGeq(result.matches[i].mutualScore,
                           ScoreCandidate(seeker, candidates[j]).mutualScore)

\* C9: two returned matches with equal mutualScore keep the relative order
\* of their candidates, and of two candidates with equal mutualScore the
\* later one is never returned without the earlier one.
C9_TiesKeepInputOrder ==
    op = "findTopMatches" =>
        /\ \A i, j \in 1..Len(result.order) :
              (i < j /\ ~result.matches[i].mutualScore.nan
                     /\ result.matches[i].mutualScore
                          = result.matches[j].mutualScore)
                  => result.order[i] < result.order[j]
        /\ \A i \in 1..Len(result.order) :
              \A e \in 1..(result.order[i] - 1) :
                  (/\ ~result.matches[i].mutualScore.nan
                   /\ ScoreCandidate(seeker, candidates[e]).mutualScore
                        = result.matches[i].mutualScore)
                      => \E k \in 1..Len(result.order) : result.order[k] = e

\* C10: the directional score is the clamp of 50 plus the seven
\* contributions: the sum itself when it lies in [0, 100], 100 when the sum
\* exceeds 100, 0 when the sum is below 0.
C10_ScoreIsClampedSum ==
    op = "calculateCompatibilityScore" =>
        LET sum == ContributionSum(seeker, Candidate)
        IN  /\ InScoreRange(sum) => score = sum
            /\ FGt(sum, Points(100)) => score = Points(100)
            /\ FLt(sum, Points(0)) => score = Points(0)

\* C10 witness: stacked penalties took the sum below 0 and the score is 0.
C10_Witness ==
    /\ op = "calculateCompatibilityScore"
    /\ FLt(ContributionSum(seeker, Candidate), Points(0))
    /\ score = Points(0)

BooleanDimensions == {"hasStem", "hasLeaf", "hasWorm", "hasChemicals"}

NumericDimensions == {"size", "weight"}

\* the preference p on dimension d can move the score: a numeric range
\* with at least one bound, a stated boolean, a truthy shine preference
Active(p, d) ==
    IF d \in NumericDimensions
    THEN p.k = "value" /\ (p.min.k = "value" \/ p.max.k = "value")
    ELSE IF d \in BooleanDimensions THEN p.k = "value"
    ELSE ~EnumPreferenceFalsy(p)

\* d is the only dimension on which the fruit f has an active preference
OnlyActive(f, d) ==
    \A e \in Dimensions : Active(f.preferences[e], e) <=> e = d

\* C11: on each of the four boolean dimensions, with a stated preference
\* and a known candidate value, the contribution is +15 when the value
\* equals the preference and -25 when it differs, whether the preference is
\* true or false; with only that preference active the directional score is
\* 65 on a match and 25 on a mismatch.
C11_BooleanContribution ==
    op = "calculateCompatibilityScore" =>
        \A d \in BooleanDimensions :
            LET p == seeker.preferences[d]
                a == Candidate.attributes[d]
            IN  (p.k = "value" /\ a.k = "value") =>
                    /\ scoreBooleanAttribute(p, a)
                         = IF a.v = p.v THEN Points(15) ELSE Points(-25)
                    /\ OnlyActive(seeker, d) =>
                         score = IF a.v = p.v THEN Points(65) ELSE Points(25)

\* C11 witness: the seeker's only preference is hasWorm = false, the
\* candidate has a worm, and the score is 25.
C11_Witness ==
    /\ op = "calculateCompatibilityScore"
    /\ OnlyActive(seeker, "hasWorm")
    /\ seeker.preferences.hasWorm = Val(FALSE)
    /\ Candidate.attributes.hasWorm = Val(TRUE)
    /\ score = Points(25)

\* the shine preference is stated with values of the enumeration: one
\* of the four shine factors, or an array of them
EnumStated(p) ==
    p.k = "array" \/ (p.k = "string" /\ p.s \in ShineFactors)

\* C12: on the enum dimension, with a stated preference and a known
\* candidate value, the contribution is +12 when the value is among the
\* acceptable values and -15 when it is not; a single-value preference v
\* scores every candidate exactly as the one-element array [v] does.
C12_EnumContribution ==
    op = "calculateCompatibilityScore" =>
        LET p == seeker.preferences.shineFactor
            a == Candidate.attributes.shineFactor
            acceptable == IF p.k = "array" THEN p.a ELSE {p.s}
        IN  /\ (EnumStated(p) /\ a.k = "value") =>
                  scoreEnumAttribute(p, a)
                    = IF a.v \in acceptable THEN Points(12) ELSE Points(-15)
            /\ (EnumStated(p) /\ p.k = "string") =>
                  score = calculateCompatibilityScore(
                              [seeker EXCEPT !.preferences.shineFactor
                                                 = ShineArray({p.s})],
                              Candidate)

\* C12 witness: the seeker's only preference is the single value "shiny",
\* the candidate is dull, and the score is 50 - 15.
C12_Witness ==
    /\ op = "calculateCompatibilityScore"
    /\ OnlyActive(seeker, "shineFactor")
    /\ seeker.preferences.shineFactor = ShineString("shiny")
    /\ Candidate.attributes.shineFactor = Val("dull")
    /\ score = Points(35)

\* 15 (1 - distance / 5) for 0 <= distance <= 5, in units of 1/Scale
LinearBonus(distance) == Num(3 * Scale * (5 - distance))

\* C13: with only min set, a value equal to min earns +15, the bonus falls
\* linearly to 0 at min + 5, every value from min + 5 on earns 0 and every
\* value below min costs 20.  With only max set the mirror image holds:
\* +15 at max, linear down to 0 at max - 5 and below, -20 above max.
C13_OneSidedRange ==
    op = "calculateCompatibilityScore" =>
        \A d \in NumericDimensions :
            LET p == seeker.preferences[d]
                a == Candidate.attributes[d]
                c == scoreNumericAttribute(p, a)
                minOnly == p.k = "value" /\ p.min.k = "value"
                             /\ p.max.k = "undefined"
                maxOnly == p.k = "value" /\ p.max.k = "value"
                             /\ p.min.k = "undefined"
            IN  a.k = "value" =>
                    /\ (minOnly /\ a.v = p.min.v) => c = Points(15)
                    /\ (minOnly /\ a.v >= p.min.v /\ a.v <= p.min.v + 5)
                           => c = LinearBonus(a.v - p.min.v)
                    /\ (minOnly /\ a.v >= p.min.v + 5) => c = Points(0)
                    /\ (minOnly /\ a.v < p.min.v) => c = Points(-20)
                    /\ (maxOnly /\ a.v = p.max.v) => c = Points(15)
                    /\ (maxOnly /\ a.v <= p.max.v /\ a.v >= p.max.v - 5)
                           => c = LinearBonus(p.max.v - a.v)
                    /\ (maxOnly /\ a.v <= p.max.v - 5) => c = Points(0)
                    /\ (maxOnly /\ a.v > p.max.v) => c = Points(-20)
                    /\ ((minOnly \/ maxOnly) /\ OnlyActive(seeker, d))
                           => score = FAdd(Points(50), c)

\* C13 witness: the seeker's only preference is size >= 1, the candidate's
\* size is 3, two fifths down the slope, and the score is 50 + 9.
C13_Witness ==
    /\ op = "calculateCompatibilityScore"
    /\ OnlyActive(seeker, "size")
    /\ seeker.preferences.size = Range(Val(1), Undef(0))
    /\ Candidate.attributes.size = Val(3)
    /\ score = Points(59)

\* C14: with both min and max set and min <= max, a value exactly at the
\* midpoint (min + max) / 2 earns the full +15, every value strictly below
\* min or strictly above max costs exactly 20, and no other value has a
\* negative contribution.
C14_TwoSidedRange ==
    op = "calculateCompatibilityScore" =>
        \A d \in NumericDimensions :
            LET p == seeker.preferences[d]
                a == Candidate.attributes[d]
                c == scoreNumericAttribute(p, a)
            IN  (/\ p.k = "value" /\ p.min.k = "value" /\ p.max.k = "value"
                 /\ p.min.v <= p.max.v
                 /\ a.k = "value") =>
                    /\ 2 * a.v = p.min.v + p.max.v => c = Points(15)
                    /\ (a.v < p.min.v \/ a.v > p.max.v) => c = Points(-20)
                    /\ (a.v >= p.min.v /\ a.v <= p.max.v)
                           => ~FLt(c, Points(0))

\* C15: for every combination of optional preference fields (min = max,
\* min > max and an empty array of acceptable values included) and
\* nullable attribute fields, calculateCompatibilityScore,
\* calculateMutualScore and findTopMatches return defined numbers: no
\* returned score is NaN.
C15_ScoresDefined ==
    /\ op = "calculateCompatibilityScore" => ~score.nan
    /\ op = "calculateMutualScore" => ~mutual.nan
    /\ op = "findTopMatches" =>
          \A i \in 1..Len(result.matches) :
              /\ ~result.matches[i].seekerToFruitScore.nan
              /\ ~result.matches[i].fruitToSeekerScore.nan
              /\ ~result.matches[i].mutualScore.nan

\* t tenths is x, in units of 1/Scale, rounded to one decimal: NaN for
\* NaN, otherwise |10 x - t| <= 1/2
IsRoundedToTenths(t, x) ==
    IF x.nan THEN t.nan
    ELSE ~t.nan /\ Abs(20 * x.n - 2 * Scale * t.n) <= Scale

\* C16: in every Match m returned by findTopMatches, seekerToFruitScore is
\* calculateCompatibilityScore(seeker, m.fruit) rounded to one decimal,
\* fruitToSeekerScore is calculateCompatibilityScore(m.fruit, seeker)
\* rounded to one decimal, and mutualScore is
\* calculateMutualScore(seeker, m.fruit).
C16_MatchScoresAgree ==
    op = "findTopMatches" =>
        \A i \in 1..Len(result.matches) :
            LET m == result.matches[i]
            IN  /\ IsRoundedToTenths(m.seekerToFruitScore,
                       calculateCompatibilityScore(seeker, m.fruit))
                /\ IsRoundedToTenths(m.fruitToSeekerScore,
                       calculateCompatibilityScore(m.fruit, seeker))
                /\ m.mutualScore = calculateMutualScore(seeker, m.fruit)

\* C16 witness: a returned Match whose directional scores are 100 and 50
\* and whose mutual score, sqrt(5000) = 70.71..., is reported as 70.7.
C16_Witness ==
    /\ op = "findTopMatches"
    /\ \E i \in 1..Len(result.matches) :
          /\ result.matches[i].seekerToFruitScore = Num(1000)
          /\ result.matches[i].fruitToSeekerScore = Num(500)
          /\ result.matches[i].mutualScore = Num(707)

\* the known attribute a breaks the active preference p on dimension d:
\* a number outside a stated bound, a boolean that differs, a shine
\* factor that is not acceptable
Violates(p, a, d) ==
    /\ Active(p, d)
    /\ a.k = "value"
    /\ IF d \in NumericDimensions
       THEN \/ (p.min.k = "value" /\ a.v < p.min.v)
            \/ (p.max.k = "value" /\ a.v > p.max.v)
       ELSE IF d \in BooleanDimensions THEN a.v # p.v
       ELSE a.v \notin (IF p.k = "array" THEN p.a ELSE {p.s})

\* the known attribute a meets the active preference p on dimension d
Satisfies(p, a, d) ==
    Active(p, d) /\ a.k = "value" /\ ~Violates(p, a, d)

\* C17: when the candidate violates none of the seeker's active
\* preferences (every known number is within its bounds, every boolean and
\* enum preference is satisfied or its attribute unknown) and satisfies at
\* least one boolean or enum preference, the directional score is strictly
\* greater than 60.
C17_GoodMatchAboveSixty ==
    op = "calculateCompatibilityScore" =>
        LET p == seeker.preferences
            a == Candidate.attributes
        IN  (/\ \A d \in Dimensions : ~Violates(p[d], a[d], d)
             /\ \E d \in Dimensions \ NumericDimensions :
                    Satisfies(p[d], a[d], d))
                => FGt(score, Points(60))

\* C18: when the seeker has at least one active preference and the
\* candidate's known attribute violates every active preference (a number
\* out of range, a boolean that differs, a shine factor that is not
\* acceptable), the directional score is strictly below 40.
C18_PoorMatchBelowForty ==
    op = "calculateCompatibilityScore" =>
        LET p == seeker.preferences
            a == Candidate.attributes
        IN  (/\ \E d \in Dimensions : Active(p[d], d)
             /\ \A d \in Dimensions :
                    Active(p[d], d) => Violates(p[d], a[d], d))
                => FLt(score, Points(40))

\* C18 witness: the seeker states a preference on all seven dimensions, the
\* candidate violates each of them, and the score is 0.
C18_Witness ==
    /\ op = "calculateCompatibilityScore"
    /\ \A d \in Dimensions :
          Violates(seeker.preferences[d], Candidate.attributes[d], d)
    /\ score = Points(0)

\* the Match a call of generateMatchReasons was given
ExplainedMatch == result.matches[1]

\* "<mutualScore>% mutual compatibility score" for a score given in tenths
IsScoreLine(line, mutualScore) ==
    /\ line.template = "{}% mutual compatibility score"
    /\ IF mutualScore.nan
       THEN line.nums = <<>> /\ line.word = "NaN"
       ELSE line.nums = <<mutualScore.n>> /\ line.word = ""

\* C19: generateMatchReasons returns a non-empty list whose last element
\* is the line "<mutualScore>% mutual compatibility score" of the Match it
\* was given, and that line appears exactly once in the list.
C19_ScoreLineLastAndOnce ==
    op = "generateMatchReasons" =>
        /\ Len(reasons) > 0
        /\ IsScoreLine(reasons[Len(reasons)], ExplainedMatch.mutualScore)
        /\ Cardinality({i \in 1..Len(reasons) :
               IsScoreLine(reasons[i], ExplainedMatch.mutualScore)}) = 1

\* C19 witness: an explanation that opens with the size line, has five
\* lines or more and closes with the line of a mutual score that is a number.
C19_Witness ==
    /\ op = "generateMatchReasons"
    /\ Len(reasons) >= 5
    /\ reasons[1].template = "Size {} is within preferred range {}-{}"
    /\ ~ExplainedMatch.mutualScore.nan
    /\ IsScoreLine(reasons[Len(reasons)], ExplainedMatch.mutualScore)

\* what the scorer of dimension d returns for preference p and attribute a
DimensionContribution(p, a, d) ==
    IF d \in NumericDimensions THEN scoreNumericAttribute(p, a)
    ELSE IF d \in BooleanDimensions THEN scoreBooleanAttribute(p, a)
    ELSE scoreEnumAttribute(p, a)

\* the templates of the reason lines that speak of dimension d
ReasonTemplates(d) ==
    CASE d = "size" -> {"Size {} is within preferred range {}-{}"}
      [] d = "weight" -> {"Weight {} is within preferred range {}-{}"}
      [] d = "hasWorm" -> {"Worm-free as preferred"}
      [] d = "hasStem" -> {"Has a stem", "No stem"}
      [] d = "hasLeaf" -> {"Has a leaf", "No leaf"}
      [] d = "hasChemicals" -> {"Treated with chemicals", "Chemical-free"}
      [] d = "shineFactor" -> {"Shine factor ({}) matches preference"}

\* the list of reasons has a line for dimension d
HasReasonFor(d) ==
    \E i \in 1..Len(reasons) : reasons[i].template \in ReasonTemplates(d)

\* C20: for every one of the seven dimensions whose scorer contribution to
\* the seeker -> candidate score is strictly positive, the list returned by
\* generateMatchReasons contains a reason line for that dimension.
C20_PositiveDimensionsListed ==
    op = "generateMatchReasons" =>
        \A d \in Dimensions :
            FGt(DimensionContribution(seeker.preferences[d],
                                      ExplainedMatch.fruit.attributes[d], d),
                Points(0))
                => HasReasonFor(d)

\* C21: findTopMatches, calculateCompatibilityScore, calculateMutualScore
\* and generateMatchReasons leave their arguments as they were: after any
\* call the seeker, every candidate and the order and contents of the
\* caller's candidate list are unchanged.
C21_ArgumentsUnchanged ==
    [][seeker' = seeker /\ candidates' = candidates]_vars

\* C21 witness: findTopMatches has returned the first three of four or
\* more candidates in an order that is not their input order (the list of
\* Match records was reordered by the sort).
C21_Witness ==
    /\ op = "findTopMatches"
    /\ Len(candidates) > 3
    /\ Len(result.order) = 3
    /\ \E i \in 1..2 : result.order[i] > result.order[i + 1]

\* C22: every reason line other than the trailing mutual score line speaks
\* of a dimension on which the seeker has an active preference, the
\* candidate's attribute is known and the scorer contribution is not
\* negative.
C22_OnlySatisfiedReported ==
    op = "generateMatchReasons" =>
        \A i \in 1..(Len(reasons) - 1) :
            \E d \in Dimensions :
                LET p == seeker.preferences[d]
                    a == ExplainedMatch.fruit.attributes[d]
                IN  /\ reasons[i].template \in ReasonTemplates(d)
                    /\ Active(p, d)
                    /\ a.k = "value"
                    /\ ~FLt(DimensionContribution(p, a, d), Points(0))

\* C22 witness: the candidate violates some preferences of the seeker and
\* satisfies others, and the explanation has lines besides the score line.
C22_Witness ==
    /\ op = "generateMatchReasons"
    /\ Len(reasons) >= 3
    /\ \E d \in Dimensions :
          Violates(seeker.preferences[d],
                   ExplainedMatch.fruit.attributes[d], d)

\* the values the candidate's attribute on dimension d ranges over
AttributeDomain(d) ==
    IF d \in NumericDimensions THEN NumericAttributes
    ELSE IF d \in BooleanDimensions THEN BooleanAttributes
    ELSE ShineAttributes

\* fruits that have the preferences of f and differ from it elsewhere
SamePreferences(f) ==
    {Fruit(id, type, attributes, f.preferences) :
        id \in {Undef(""), Val("fruits:other")},
        type \in {"apple", "orange"},
        attributes \in {UnknownAttributes, Keen.attributes, Shabby.attributes}}

\* fruits that have the attributes of f and differ from it elsewhere
SameAttributes(f) ==
    {Fruit(id, type, f.attributes, preferences) :
        id \in {Undef(""), Val("fruits:other")},
        type \in {"apple", "orange"},
        preferences \in {NoPreferences, Keen.preferences, Shabby.preferences}}

\* C23: the directional score depends only on the seeker's preferences and
\* the candidate's attributes: a call on fruits that agree on these two
\* records returns the same score whatever their other attributes,
\* preferences, types and identifiers; and replacing a candidate attribute
\* on a dimension without an active preference of the seeker leaves the
\* score as it is.
C23_DependsOnPreferencesAndAttributes ==
    op = "calculateCompatibilityScore" =>
        /\ \A s \in SamePreferences(seeker), c \in SameAttributes(Candidate) :
              score = calculateCompatibilityScore(s, c)
        /\ \A d \in Dimensions :
              ~Active(seeker.preferences[d], d) =>
                  \A x \in AttributeDomain(d) :
                      score = calculateCompatibilityScore(seeker,
                                  [Candidate EXCEPT !.attributes[d] = x])

\* C23 witness: a seeker with attributes of its own has scored a candidate
\* with preferences of its own; the score is a number other than 50, and
\* the candidate has a known attribute on a dimension the seeker states no
\* active preference on.
C23_Witness ==
    /\ op = "calculateCompatibilityScore"
    /\ seeker.attributes # UnknownAttributes
    /\ Candidate.preferences # NoPreferences
    /\ ~score.nan /\ score # Points(50)
    /\ \E d \in Dimensions :
          /\ ~Active(seeker.preferences[d], d)
          /\ Candidate.attributes[d].k = "value"

\* twice the distance of the value v from the midpoint of the range p
TwiceFromMidpoint(p, v) == Abs(2 * v - p.min.v - p.max.v)

C25_EmptyRangeIsAbsent ==
    op = "calculateCompatibilityScore" =>
        \A d \in NumericDimensions :
            seeker.preferences[d] = Range(Undef(0), Undef(0)) =>
                /\ scoreNumericAttribute(seeker.preferences[d],
                                         Candidate.attributes[d]) = Points(0)
                /\ score = calculateCompatibilityScore(
                               WithoutPreference(seeker, d), Candidate)

\* C25 witness: the seeker's size preference is the empty object, the
\* candidate's size is known, and other preferences moved the score off 50.
C25_Witness ==
    /\ op = "calculateCompatibilityScore"
    /\ seeker.preferences.size = Range(Undef(0), Undef(0))
    /\ Candidate.attributes.size.k = "value"
    /\ ~score.nan /\ score # Points(50)

\* C26: generateMatchExplanation never lets a failure of the text
\* generation escape: it always returns a message, and when the service
\* throws the message is the template fallback, the "No matches found" text
\* for an empty match list and otherwise a text built from the first match.
C26_FallbackOnLlmFailure ==
    op = "generateMatchExplanation" =>
        /\ explanation.outcome = "returned"
        /\ explanation.llm = "throws" =>
              LET m == explanation.message
              IN  /\ m.source = "template"
                  /\ Len(result.matches) = 0 =>
                        m.opening = "No matches found at the moment."
                  /\ Len(result.matches) > 0 =>
                        /\ m.opening = "Great news! We found"
                        /\ m.count = Len(result.matches)
                        /\ m.mutualScore = result.matches[1].mutualScore
                        /\ m.closing = ClosingFor(result.matches[1].mutualScore)
                        /\ \A i \in 1..Len(m.topReasons) :
                              \E j \in 1..Len(generateMatchReasons(
                                                  seeker, result.matches[1])) :
                                  m.topReasons[i]
                                    = generateMatchReasons(
                                          seeker, result.matches[1])[j]

\* C26 witness: the service threw for a list of two or more matches, and
\* the message names the best match's score and two of its reasons.
C26_Witness ==
    /\ op = "generateMatchExplanation"
    /\ explanation.llm = "throws"
    /\ explanation.outcome = "returned"
    /\ Len(result.matches) >= 2
    /\ Len(explanation.message.topReasons) = 2
    /\ explanation.message.mutualScore = result.matches[1].mutualScore

\* C27: in get-incoming-apple and get-incoming-orange, a request that has
\* obtained its database connection and has completed, with the 200
\* response or with the 500 response after a failure in a later step, has
\* closed the connection, by one call of close.
C27_IncomingClosesConnection ==
    \A i \in 1..Len(requests) :
        (/\ requests[i].handler \in IncomingHandlers
         /\ requests[i].db
         /\ requests[i].pc = "done")
            => /\ requests[i].socket = "closed"
               /\ requests[i].closes = 1
               /\ requests[i].status \in {200, 500}

\* C27 witness: one request answered with 200 and one that failed after its
\* fruit was stored, both completed with the connection closed.
C27_Witness ==
    \E i, j \in 1..Len(requests) :
        /\ requests[i].handler = "get-incoming-apple"
        /\ requests[j].handler = "get-incoming-orange"
        /\ requests[i].pc = "done" /\ requests[j].pc = "done"
        /\ requests[i].status = 200 /\ requests[j].status = 500
        /\ requests[j].db /\ requests[j].fruit.id.k = "value"
        /\ requests[i].socket = "closed" /\ requests[j].socket = "closed"

\* C28: in send-message, a request that has obtained its database
\* connection and has completed (404, 500 or the end of the stream) has
\* closed the connection, and by one call of close only.
C28_MessageClosesConnectionOnce ==
    \A i \in 1..Len(requests) :
        (/\ requests[i].handler = "send-message"
         /\ requests[i].db
         /\ requests[i].pc = "done")
            => /\ requests[i].socket = "closed"
               /\ requests[i].closes = 1

\* the stored fruit with a record id
StoredFruit(id) ==
    CHOOSE f \in {fruitsTable[k] : k \in 1..Len(fruitsTable)} : f.id = Val(id)

\* C29: every row of the matches table names an apple in apple_id and an
\* orange in orange_id, and holds in apple_to_orange_score the rounded score
\* of the apple's preferences against the orange's attributes and in
\* orange_to_apple_score the rounded score of the reverse direction,
\* whichever of the two handlers wrote the row.
C29_SeekerIndependentOrientation ==
    \A row \in BagToSet(matchesTable) :
        LET apple == StoredFruit(row.apple_id)
            orange == StoredFruit(row.orange_id)
        IN  /\ \E f \in {fruitsTable[n] : n \in 1..Len(fruitsTable)} :
                  f.id = Val(row.apple_id)
            /\ \E f \in {fruitsTable[n] : n \in 1..Len(fruitsTable)} :
                  f.id = Val(row.orange_id)
            /\ apple.type = "apple"
            /\ orange.type = "orange"
            /\ row.apple_to_orange_score
                 = RoundTenths(calculateCompatibilityScore(apple, orange))
            /\ row.orange_to_apple_score
                 = RoundTenths(calculateCompatibilityScore(orange, apple))

\* C29 witness: a row written by the orange handler whose two directional
\* scores differ, so that the swap of the two fields can be told.
C29_Witness ==
    \E i \in 1..Len(requests), row \in BagToSet(matchesTable) :
        /\ requests[i].handler = "get-incoming-orange"
        /\ requests[i].inserted >= 1
        /\ row.orange_id = requests[i].fruit.id.v
        /\ row.apple_to_orange_score # row.orange_to_apple_score
        /\ row.apple_to_orange_score
             = requests[i].matches[1].fruitToSeekerScore

\* C30: whatever the interleaving of the get-incoming requests, the matches
\* table holds at most one row for a pair (apple_id, orange_id).
C30_OneRowPerPair ==
    \A row, other \in BagToSet(matchesTable) :
        (/\ row.apple_id = other.apple_id
         /\ row.orange_id = other.orange_id)
            => /\ row = other
               /\ CopiesIn(row, matchesTable) = 1

====
